---- MODULE Spec2Model ----
(***************************************************************************)
(* A model of the field-element gadget (src/circuit/num.rs) and of the     *)
(* Pedersen hash circuit (src/circuit/pedersen_hash.rs) of sapling-crypto. *)
(*                                                                         *)
(* The prime field E::Fr is a small prime field Z_char, the constraint     *)
(* system is the list of its wires' assignments and of its rank-1          *)
(* constraints, and every gadget is an operator from a constraint system   *)
(* and its operands to the constraint system it leaves and its result.     *)
(***************************************************************************)
EXTENDS Integers, Sequences, FiniteSets, TLC

VARIABLES
    char,       \* the modulus of E::Fr (E::Fr::char())
    scenario,   \* "num": the field-element gadget is driven; "hash": pedersen_hash
    cs,         \* the constraint system: its wires' assignments and constraints
    nums,       \* the AllocatedNums constructed so far
    abits,      \* the AllocatedBits constructed so far
    last,       \* the last gadget call: its operands, its result, what it added
    \* pedersen_hash: its argument, its locals, its place and its result
    input,              \* the argument bits: &[Boolean]
    pc,                 \* the place in pedersen_hash
    bits_iter,          \* the iterator bits.iter(): the bits not yet taken
    segment_generators, \* the iterator over the segments not yet taken
    segment_windows,    \* the windows of the current segment not yet used
    segment_i,
    window_i,
    segment_result,     \* Option<MontgomeryPoint>
    edwards_result,     \* Option<EdwardsPoint>
    trace,              \* the collaborators' calls, in order, with their namespaces
    result              \* what pedersen_hash returned

numVars == <<char, scenario, cs, nums, abits, last>>
hashVars == <<input, pc, bits_iter, segment_generators, segment_windows, segment_i, window_i,
              segment_result, edwards_result, trace, result>>
vars == <<numVars, hashVars>>

(***************************************************************************)
(* Bounds of the model.                                                    *)
(***************************************************************************)
MaxChar == 5        \* the fields are Z_p for the odd primes p <= MaxChar
ReprBits == 4       \* width of a field element's representation (into_repr)
MaxWires == 5       \* wires of the constraint system
MaxNums == 2        \* input numbers the driver allocates
MaxCalls == 2       \* gadget calls after the inputs
MaxHashBits == 18   \* length of the input of pedersen_hash
MaxOnes == 3        \* true bits of the input of pedersen_hash
NumSegments == 3    \* segments of the generator table
WindowsPerSegment == 2  \* windows of a segment of the generator table
GroupOrder == 1009  \* the curve's group is Z_GroupOrder

(***************************************************************************)
(* The field E::Fr.                                                        *)
(***************************************************************************)
IsPrime(p) == p > 1 /\ \A d \in 2..(p - 1) : p % d # 0

Moduli == {p \in 3..MaxChar : IsPrime(p)}

Fr == 0..(char - 1)

\* Option: None is the empty sequence, Some(v) the sequence of v
None == <<>>
Some(v) == <<v>>
IsSome(o) == o # <<>>
Unwrap(o) == o[1]

FrAdd(a, b) == (a + b) % char
FrSub(a, b) == (a + char - b) % char
FrMul(a, b) == (a * b) % char
FrNegate(a) == (char - a) % char
FrDouble(a) == (a + a) % char
FrSquare(a) == (a * a) % char
FrOne == 1 % char
FrZero == 0
FrIsZero(a) == a = 0
\* Field::inverse: None for zero
FrInverse(a) == IF a = 0 THEN None ELSE Some(CHOOSE x \in Fr : (a * x) % char = 1)

Pow2(n) == 2 ^ n

\* PrimeField::NUM_BITS: the bit length of the modulus
NUM_BITS == CHOOSE n \in 1..ReprBits : Pow2(n - 1) <= char /\ char < Pow2(n)

\* BitIterator::new(repr): the ReprBits bits of the representation, most
\* significant first
BitIterator(x) == [i \in 1..ReprBits |-> (x \div Pow2(ReprBits - i)) % 2 = 1]

(***************************************************************************)
(* Option and Assignment::get.                                             *)
(***************************************************************************)
\* Result<Fr, SynthesisError>
Ok(v) == [err |-> "Ok", val |-> v]
Err(e) == [err |-> e, val |-> 0]
AssignmentMissing == "AssignmentMissing"
DivisionByZero == "DivisionByZero"

\* Assignment::get: the value, or Err(AssignmentMissing)
Get(opt) == IF opt = None THEN Err(AssignmentMissing) ELSE Ok(Unwrap(opt))

(***************************************************************************)
(* Linear combinations and the constraint system.                          *)
(* A variable is 0 (CS::one()) or the index of an auxiliary wire.  A       *)
(* linear combination is the sequence of its (coefficient, variable)       *)
(* terms in the order they were added.                                     *)
(***************************************************************************)
One == 0

LcZero == <<>>
LcAdd(lc, coeff, var) == Append(lc, <<coeff, var>>)
LcPlus(lc, var) == Append(lc, <<FrOne, var>>)
LcSub(lc, coeff, var) == Append(lc, <<FrNegate(coeff), var>>)
LcMinus(lc, var) == Append(lc, <<FrNegate(FrOne), var>>)

WireValue(wit, var) == IF var = One THEN FrOne ELSE wit[var]

RECURSIVE EvalFrom(_, _, _)
EvalFrom(lc, wit, i) ==
    IF i > Len(lc) THEN 0
    ELSE FrAdd(FrMul(lc[i][1], WireValue(wit, lc[i][2])), EvalFrom(lc, wit, i + 1))

\* the value of a linear combination under an assignment
Eval(lc, wit) == EvalFrom(lc, wit, 1)

\* A constraint system either runs the value closures handed to alloc (runs:
\* the test constraint system, a prover's) or defines the circuit's shape
\* only (a key generator's): it then keeps no assignment.
EmptyCs == [wit |-> <<>>, wnames |-> <<>>, cons |-> <<>>, runs |-> TRUE]
ShapeCs == [EmptyCs EXCEPT !.runs = FALSE]

\* ConstraintSystem::alloc.  res is what the value closure returns when it is
\* run.  A system that runs it fails as the closure fails and assigns its
\* value to the wire; a system that defines the shape only never calls it.
CsAlloc(c, name, res) ==
    IF ~c.runs
    THEN [err |-> "Ok", cs |-> [c EXCEPT !.wnames = Append(@, name)],
          var |-> Len(c.wnames) + 1]
    ELSE IF res.err # "Ok"
    THEN [err |-> res.err, cs |-> c, var |-> One]
    ELSE [err |-> "Ok",
          cs |-> [c EXCEPT !.wit = Append(@, res.val), !.wnames = Append(@, name)],
          var |-> Len(c.wnames) + 1]

\* ConstraintSystem::enforce: a * b = c
CsEnforce(c, name, a, b, cc) ==
    [c EXCEPT !.cons = Append(@, [name |-> name, kind |-> "r1cs",
                                    a |-> a, b |-> b, c |-> cc, bits |-> <<>>])]

(***************************************************************************)
(* Boolean and AllocatedBit (circuit/boolean.rs).                          *)
(***************************************************************************)
NoBit == [value |-> None, variable |-> One]

Constant(b) == [kind |-> "Constant", c |-> b, bit |-> NoBit]
Is(bit) == [kind |-> "Is", c |-> FALSE, bit |-> bit]
Not(bit) == [kind |-> "Not", c |-> FALSE, bit |-> bit]

\* Boolean::get_value
BooleanValue(b) ==
    CASE b.kind = "Constant" -> Some(b.c)
      [] b.kind = "Is" -> b.bit.value
      [] OTHER -> IF b.bit.value = None THEN None ELSE Some(~Unwrap(b.bit.value))

\* Boolean::lc(one, coeff)
BooleanLc(b, coeff) ==
    CASE b.kind = "Constant" -> IF b.c THEN LcAdd(LcZero, coeff, One) ELSE LcZero
      [] b.kind = "Is" -> LcAdd(LcZero, coeff, b.bit.variable)
      [] OTHER -> LcSub(LcAdd(LcZero, coeff, One), coeff, b.bit.variable)

BoolToFr(b) == IF b THEN FrOne ELSE FrZero

\* the "value below the modulus" assertion over a bit sequence
\* (Boolean::enforce_in_field), kept as one constraint of its own kind over
\* the bits' linear combinations
CsEnforceInField(c, name, bits) ==
    [c EXCEPT !.cons = Append(@, [name |-> name, kind |-> "infield",
                                    a |-> <<>>, b |-> <<>>, c |-> <<>>,
                                    bits |-> [i \in 1..Len(bits) |->
                                                 BooleanLc(bits[i], FrOne)]])]

\* AllocatedBit::alloc: one wire "boolean" and the constraint (1 - a) * a = 0
AllocatedBitAlloc(c, ns, b) ==
    LET r == CsAlloc(c, ns \o "boolean",
                     IF b = None THEN Err(AssignmentMissing) ELSE Ok(BoolToFr(Unwrap(b))))
    IN  IF r.err # "Ok"
        THEN [err |-> r.err, cs |-> c, bit |-> NoBit]
        ELSE [err |-> "Ok",
              cs |-> CsEnforce(r.cs, ns \o "boolean constraint",
                               LcMinus(LcPlus(LcZero, One), r.var),
                               LcPlus(LcZero, r.var),
                               LcZero),
              bit |-> [value |-> b, variable |-> r.var]]

(***************************************************************************)
(* Satisfaction (the test constraint system's is_satisfied).               *)
(***************************************************************************)
RECURSIVE BitsNumber(_, _, _)
\* the integer a sequence of bit values, most significant first, writes
BitsNumber(vals, i, acc) ==
    IF i > Len(vals) THEN acc ELSE BitsNumber(vals, i + 1, 2 * acc + vals[i])

ConstraintHolds(con, wit) ==
    IF con.kind = "r1cs"
    THEN FrMul(Eval(con.a, wit), Eval(con.b, wit)) = Eval(con.c, wit)
    ELSE LET vals == [i \in 1..Len(con.bits) |-> Eval(con.bits[i], wit)]
         IN  /\ \A i \in 1..Len(vals) : vals[i] \in {0, 1}
             /\ BitsNumber(vals, 1, 0) < char

SatisfiedBy(c, wit) == \A i \in 1..Len(c.cons) : ConstraintHolds(c.cons[i], wit)

IsSatisfied(c) == SatisfiedBy(c, c.wit)

\* which_is_unsatisfied: the name of the first constraint that fails
WhichIsUnsatisfied(c) ==
    IF IsSatisfied(c) THEN "None"
    ELSE LET i == CHOOSE k \in 1..Len(c.cons) :
                    /\ ~ConstraintHolds(c.cons[k], c.wit)
                    /\ \A j \in 1..(k - 1) : ConstraintHolds(c.cons[j], c.wit)
         IN  c.cons[i].name

\* TestConstraintSystem::set
CsSet(c, var, v) == [c EXCEPT !.wit[var] = v]

\* cs.namespace(|| name): the prefix of the names given inside it
Namespace(ns, name) == ns \o name \o "/"

(***************************************************************************)
(* AllocatedNum (circuit/num.rs).  A gadget's result is the record of its  *)
(* Result (err is "Ok", a SynthesisError or "Panic"), of the constraint    *)
(* system it leaves and of what it returns.                                *)
(***************************************************************************)
NoNum == [value |-> None, variable |-> One]

\* a slip: the variable is assigned whether the closure is run or not
AssignedAnyway(c, res) == Some(res.val)

\* what a closure handed to alloc leaves in the variable it assigns
\* (new_value = Some(tmp)): the value when the closure was run, else None
Assigned(c, res) == IF c.runs THEN Some(res.val) ELSE None

\* AllocatedNum::alloc; res is the result of the closure `value`
AllocatedNumAlloc(c, ns, res) ==
    LET r == CsAlloc(c, ns \o "num", res)
    IN  IF r.err # "Ok"
        THEN [err |-> r.err, cs |-> c, num |-> NoNum]
        ELSE [err |-> "Ok", cs |-> r.cs,
              num |-> [value |-> Assigned(c, res), variable |-> r.var]]

RECURSIVE SkipLeadingZeros(_, _, _, _, _)
\* a slip: the leading zero bits of the value itself are skipped
SkipLeadingZeros(vbits, field_char, i, found_one, tmp) ==
    IF i > Len(vbits) THEN tmp
    ELSE LET found == found_one \/ vbits[i]
         IN  IF ~found
             THEN SkipLeadingZeros(vbits, field_char, i + 1, found, tmp)
             ELSE SkipLeadingZeros(vbits, field_char, i + 1, found,
                                   Append(tmp, Some(vbits[i])))

RECURSIVE SkipLeadingBits(_, _, _, _, _)
\* the loop of into_bits over BitIterator::new(value.into_repr()): a bit is
\* pushed once the modulus' own bits have shown a one
SkipLeadingBits(vbits, field_char, i, found_one, tmp) ==
    IF i > Len(vbits) THEN tmp
    ELSE LET found == found_one \/ field_char[i]
         IN  IF ~found
             THEN SkipLeadingBits(vbits, field_char, i + 1, found, tmp)
             ELSE SkipLeadingBits(vbits, field_char, i + 1, found,
                                  Append(tmp, Some(vbits[i])))

\* bit_values of into_bits
BitValues(value) ==
    IF IsSome(value)
    THEN SkipLeadingBits(BitIterator(Unwrap(value)), BitIterator(char), 1, FALSE, <<>>)
    ELSE [i \in 1..NUM_BITS |-> None]

RECURSIVE AllocBits(_, _, _, _, _)
\* the loop of into_bits that allocates "bit i" for each bit value
AllocBits(c, ns, bit_values, i, bits) ==
    IF i > Len(bit_values) THEN [err |-> "Ok", cs |-> c, bits |-> bits]
    ELSE LET r == AllocatedBitAlloc(c, Namespace(ns, "bit " \o ToString(i - 1)),
                                    bit_values[i])
         IN  IF r.err # "Ok"
             THEN [err |-> r.err, cs |-> r.cs, bits |-> bits]
             ELSE AllocBits(r.cs, ns, bit_values, i + 1, Append(bits, r.bit))

RECURSIVE UnpackingLcNoDouble(_, _, _, _)
\* a slip: the coefficient is not doubled
UnpackingLcNoDouble(bits, i, lc, coeff) ==
    IF i < 1 THEN lc
    ELSE UnpackingLcNoDouble(bits, i - 1, LcAdd(lc, coeff, bits[i].variable), coeff)

RECURSIVE UnpackingLc(_, _, _, _)
\* the loop of into_bits over bits.iter().rev(): lc + (coeff, bit), coeff doubled
UnpackingLc(bits, i, lc, coeff) ==
    IF i < 1 THEN lc
    ELSE UnpackingLc(bits, i - 1, LcAdd(lc, coeff, bits[i].variable), FrDouble(coeff))

\* a slip: the unpacking constraint is not enforced
IntoBitsUnconstrained(c, ns, self) ==
    LET r == AllocBits(c, ns, BitValues(self.value), 1, <<>>)
    IN  [err |-> r.err, cs |-> r.cs, bits |-> [i \in 1..Len(r.bits) |-> Is(r.bits[i])]]

\* AllocatedNum::into_bits
IntoBits(c, ns, self) ==
    LET bit_values == BitValues(self.value)
    IN  IF Len(bit_values) # NUM_BITS
        THEN [err |-> "Panic", cs |-> c, bits |-> <<>>]
        ELSE LET r == AllocBits(c, ns, bit_values, 1, <<>>)
             IN  IF r.err # "Ok"
                 THEN [err |-> r.err, cs |-> r.cs, bits |-> <<>>]
                 ELSE LET lc == LcMinus(UnpackingLc(r.bits, Len(r.bits), LcZero, FrOne),
                                        self.variable)
                      IN  [err |-> "Ok",
                           cs |-> CsEnforce(r.cs, ns \o "unpacking constraint",
                                            LcZero, LcZero, lc),
                           bits |-> [i \in 1..Len(r.bits) |-> Is(r.bits[i])]]

\* AllocatedNum::into_bits_strict
IntoBitsStrict(c, ns, self) ==
    LET r == IntoBits(c, ns, self)
    IN  IF r.err # "Ok" THEN r
        ELSE [r EXCEPT !.cs = CsEnforceInField(r.cs, ns \o "enforce in field", r.bits)]

\* a slip: a negated bit adds its coefficient when the bit itself is true
PackBitNotAsIs(st, bit) ==
    LET add == IF IsSome(st.value) THEN Some(FrAdd(Unwrap(st.value), st.coeff))
               ELSE None
    IN  CASE bit.kind = "Constant" /\ ~bit.c -> st
          [] bit.kind = "Constant" /\ bit.c ->
                [st EXCEPT !.value = add, !.lc = LcAdd(st.lc, st.coeff, One)]
          [] bit.kind = "Is" ->
                [st EXCEPT !.value = IF bit.bit.value = None THEN None
                                     ELSE IF Unwrap(bit.bit.value) THEN add ELSE @,
                           !.lc = LcAdd(st.lc, st.coeff, bit.bit.variable)]
          [] OTHER ->
                [st EXCEPT !.value = IF bit.bit.value = None THEN None
                                     ELSE IF Unwrap(bit.bit.value) THEN add ELSE @,
                           !.lc = LcSub(LcAdd(st.lc, st.coeff, One),
                                        st.coeff, bit.bit.variable)]

\* a slip: a wire enters the linear combination only where its value adds
PackBitOfTrueWires(st, bit) ==
    LET add == IF IsSome(st.value) THEN Some(FrAdd(Unwrap(st.value), st.coeff))
               ELSE None
    IN  CASE bit.kind = "Constant" /\ ~bit.c -> st
          [] bit.kind = "Constant" /\ bit.c ->
                [st EXCEPT !.value = add, !.lc = LcAdd(st.lc, st.coeff, One)]
          [] bit.kind = "Is" ->
                IF bit.bit.value = None
                THEN [st EXCEPT !.value = None,
                                !.lc = LcAdd(st.lc, st.coeff, bit.bit.variable)]
                ELSE IF Unwrap(bit.bit.value)
                THEN [st EXCEPT !.value = add,
                                !.lc = LcAdd(st.lc, st.coeff, bit.bit.variable)]
                ELSE st
          [] OTHER ->
                [st EXCEPT !.value = IF bit.bit.value = None THEN None
                                     ELSE IF ~Unwrap(bit.bit.value) THEN add ELSE @,
                           !.lc = LcSub(LcAdd(st.lc, st.coeff, One),
                                        st.coeff, bit.bit.variable)]

\* one step of the loop of from_bits_strict: the match on the Boolean
PackBit(st, bit) ==
    LET add == IF IsSome(st.value) THEN Some(FrAdd(Unwrap(st.value), st.coeff))
               ELSE None
    IN  CASE bit.kind = "Constant" /\ ~bit.c -> st
          [] bit.kind = "Constant" /\ bit.c ->
                [st EXCEPT !.value = add, !.lc = LcAdd(st.lc, st.coeff, One)]
          [] bit.kind = "Is" ->
                [st EXCEPT !.value = IF bit.bit.value = None THEN None
                                     ELSE IF Unwrap(bit.bit.value) THEN add ELSE @,
                           !.lc = LcAdd(st.lc, st.coeff, bit.bit.variable)]
          [] OTHER ->
                [st EXCEPT !.value = IF bit.bit.value = None THEN None
                                     ELSE IF ~Unwrap(bit.bit.value) THEN add ELSE @,
                           !.lc = LcSub(LcAdd(st.lc, st.coeff, One),
                                        st.coeff, bit.bit.variable)]

RECURSIVE PackingLoopNoDouble(_, _, _)
\* a slip: the coefficient is not doubled
PackingLoopNoDouble(bits, i, st) ==
    IF i < 1 THEN st
    ELSE PackingLoopNoDouble(bits, i - 1, PackBit(st, bits[i]))

RECURSIVE PackingLoop(_, _, _)
\* the loop of from_bits_strict over bits.iter().rev(), coeff doubled each time
PackingLoop(bits, i, st) ==
    IF i < 1 THEN st
    ELSE PackingLoop(bits, i - 1,
                     [PackBit(st, bits[i]) EXCEPT !.coeff = FrDouble(st.coeff)])

\* AllocatedNum::from_bits_strict
FromBitsStrict(c, ns, bits) ==
    IF Len(bits) # NUM_BITS
    THEN [err |-> "Panic", cs |-> c, num |-> NoNum]
    ELSE LET c1 == CsEnforceInField(c, ns \o "enforce in field", bits)
             st == PackingLoop(bits, Len(bits),
                               [lc |-> LcZero, coeff |-> FrOne, value |-> Some(FrZero)])
             r == AllocatedNumAlloc(c1, ns, Get(st.value))
         IN  IF r.err # "Ok" THEN [err |-> r.err, cs |-> c1, num |-> NoNum]
             ELSE [err |-> "Ok",
                   cs |-> CsEnforce(r.cs, ns \o "packing constraint",
                                    LcZero, LcZero, LcMinus(st.lc, r.num.variable)),
                   num |-> r.num]

\* a slip: the closure of mul adds
MulValueAdds(self, other) ==
    LET a == Get(self.value)
        b == Get(other.value)
    IN  IF a.err # "Ok" THEN a
        ELSE IF b.err # "Ok" THEN b
        ELSE Ok(FrAdd(a.val, b.val))

\* the closure of mul: self.value.get()? times other.value.get()?
MulValue(self, other) ==
    LET a == Get(self.value)
        b == Get(other.value)
    IN  IF a.err # "Ok" THEN a
        ELSE IF b.err # "Ok" THEN b
        ELSE Ok(FrMul(a.val, b.val))

\* AllocatedNum::mul
Mul(c, ns, self, other) ==
    LET res == MulValue(self, other)
        r == CsAlloc(c, ns \o "product num", res)
    IN  IF r.err # "Ok" THEN [err |-> r.err, cs |-> c, num |-> NoNum]
        ELSE [err |-> "Ok",
              cs |-> CsEnforce(r.cs, ns \o "multiplication constraint",
                               LcPlus(LcZero, self.variable),
                               LcPlus(LcZero, other.variable),
                               LcPlus(LcZero, r.var)),
              num |-> [value |-> Assigned(c, res), variable |-> r.var]]

\* the closure of square
SquareValue(self) ==
    LET a == Get(self.value)
    IN  IF a.err # "Ok" THEN a ELSE Ok(FrSquare(a.val))

\* AllocatedNum::square
Square(c, ns, self) ==
    LET res == SquareValue(self)
        r == CsAlloc(c, ns \o "squared num", res)
    IN  IF r.err # "Ok" THEN [err |-> r.err, cs |-> c, num |-> NoNum]
        ELSE [err |-> "Ok",
              cs |-> CsEnforce(r.cs, ns \o "squaring constraint",
                               LcPlus(LcZero, self.variable),
                               LcPlus(LcZero, self.variable),
                               LcPlus(LcZero, r.var)),
              num |-> [value |-> Assigned(c, res), variable |-> r.var]]

\* a slip: zero is not refused
InverseValueOfAny(self) ==
    LET a == Get(self.value)
    IN  IF a.err # "Ok" THEN a
        ELSE IF FrIsZero(a.val) THEN Ok(FrZero)
        ELSE Ok(Unwrap(FrInverse(a.val)))

\* the closure of assert_nonzero
InverseValue(self) ==
    LET a == Get(self.value)
    IN  IF a.err # "Ok" THEN a
        ELSE IF FrIsZero(a.val) THEN Err(DivisionByZero)
        ELSE Ok(Unwrap(FrInverse(a.val)))

\* AllocatedNum::assert_nonzero
AssertNonzero(c, ns, self) ==
    LET r == CsAlloc(c, ns \o "ephemeral inverse", InverseValue(self))
    IN  IF r.err # "Ok" THEN [err |-> r.err, cs |-> c, inv |-> One]
        ELSE [err |-> "Ok",
              cs |-> CsEnforce(r.cs, ns \o "nonzero assertion constraint",
                               LcPlus(LcZero, self.variable),
                               LcPlus(LcZero, r.var),
                               LcPlus(LcZero, One)),
              inv |-> r.var]

\* a slip: the two closures are exchanged
ReverseValueExchanged(first, a, b, condition) ==
    LET cond == Get(BooleanValue(condition))
    IN  IF cond.err # "Ok" THEN Err(cond.err)
        ELSE IF cond.val THEN Get(IF first THEN a.value ELSE b.value)
        ELSE Get(IF first THEN b.value ELSE a.value)

\* the closures of conditionally_reverse: the first result takes b when the
\* condition holds, the second takes a
ReverseValue(first, a, b, condition) ==
    LET cond == Get(BooleanValue(condition))
    IN  IF cond.err # "Ok" THEN Err(cond.err)
        ELSE IF cond.val THEN Get(IF first THEN b.value ELSE a.value)
        ELSE Get(IF first THEN a.value ELSE b.value)

\* AllocatedNum::conditionally_reverse
ConditionallyReverse(c, ns, a, b, condition) ==
    LET r == AllocatedNumAlloc(c, Namespace(ns, "conditional reversal result 1"),
                               ReverseValue(TRUE, a, b, condition))
        s == AllocatedNumAlloc(r.cs, Namespace(ns, "conditional reversal result 2"),
                               ReverseValue(FALSE, a, b, condition))
    IN  IF r.err # "Ok" THEN [err |-> r.err, cs |-> c, r |-> NoNum, s |-> NoNum]
        ELSE IF s.err # "Ok" THEN [err |-> s.err, cs |-> r.cs, r |-> NoNum, s |-> NoNum]
        ELSE [err |-> "Ok",
              cs |-> CsEnforce(s.cs, ns \o "conditional reversal",
                        LcMinus(LcMinus(LcPlus(LcPlus(LcZero, b.variable), b.variable),
                                        a.variable), a.variable),
                        BooleanLc(condition, FrOne),
                        LcMinus(LcPlus(LcMinus(LcPlus(LcZero, r.num.variable),
                                               s.num.variable), b.variable), a.variable)),
              r |-> r.num, s |-> s.num]

\* a slip: the condition is read from the wire, whatever the variant
NegateValueOfWire(self, condition) ==
    LET tmp == Get(self.value)
        cond == Get(IF condition.kind = "Constant" THEN Some(condition.c)
                    ELSE condition.bit.value)
    IN  IF tmp.err # "Ok" THEN tmp
        ELSE IF cond.err # "Ok" THEN Err(cond.err)
        ELSE IF cond.val THEN Ok(FrNegate(tmp.val)) ELSE tmp

\* the closure of conditionally_negate
NegateValue(self, condition) ==
    LET tmp == Get(self.value)
        cond == Get(BooleanValue(condition))
    IN  IF tmp.err # "Ok" THEN tmp
        ELSE IF cond.err # "Ok" THEN Err(cond.err)
        ELSE IF cond.val THEN Ok(FrNegate(tmp.val)) ELSE tmp

\* AllocatedNum::conditionally_negate
ConditionallyNegate(c, ns, self, condition) ==
    LET r == AllocatedNumAlloc(c, Namespace(ns, "conditional negation result"),
                               NegateValue(self, condition))
    IN  IF r.err # "Ok" THEN [err |-> r.err, cs |-> c, num |-> NoNum]
        ELSE [err |-> "Ok",
              cs |-> CsEnforce(r.cs, ns \o "conditional negation",
                               LcPlus(LcPlus(LcZero, self.variable), self.variable),
                               BooleanLc(condition, FrOne),
                               LcMinus(LcPlus(LcZero, self.variable), r.num.variable)),
              num |-> r.num]

(***************************************************************************)
(* The driver of the field-element gadget, as the tests drive it: it       *)
(* allocates input numbers and input bits, calls gadgets on them and on    *)
(* the earlier results.                                                    *)
(***************************************************************************)
NoCall == [op |-> "none", count |-> 0, err |-> "Ok", ns |-> "", args |-> <<>>,
           cond |-> Constant(FALSE), inbits |-> <<>>, outs |-> <<>>, outbits |-> <<>>,
           inv |-> One, before |-> EmptyCs,
           prev |-> [op |-> "none", args |-> <<>>, outbits |-> <<>>]]

\* the Booleans the driver can hand to a gadget
Booleans ==
    {Constant(TRUE), Constant(FALSE)}
        \cup {Is(abits[i]) : i \in 1..Len(abits)}
        \cup {Not(abits[i]) : i \in 1..Len(abits)}

\* the Booleans over one AllocatedBit, as the tests build them
BooleansOf(bit) == {Constant(TRUE), Constant(FALSE), Is(bit), Not(bit)}

\* the bit sequences the driver hands to from_bits_strict: position i holds a
\* constant or, direct or negated, the i-th of the last n bits allocated
BitSequences(n) ==
    IF Len(abits) < n THEN {}
    ELSE LET pool == SubSeq(abits, Len(abits) - n + 1, Len(abits))
         IN  {q \in [1..n -> UNION {BooleansOf(pool[i]) : i \in 1..n}] :
                 \A i \in 1..n : q[i] \in BooleansOf(pool[i])}

\* the results of the last call: a later call takes one of them as an operand
LastNums == {k \in 1..Len(nums) : \E o \in 1..Len(last.outs) : nums[k] = last.outs[o]}
Chained(S) == last.count = 0 \/ S \cap LastNums # {}

CanCall(wires) ==
    /\ scenario = "num"
    /\ last.count < MaxCalls
    /\ last.err = "Ok"
    /\ Len(cs.wnames) + wires <= MaxWires

CallNs == IF last.count = 0 THEN "" ELSE Namespace("", "call " \o ToString(last.count))

\* what a call leaves: the constraint system, the new numbers and bits, the record
Called(r, rec, newnums, newbits) ==
    /\ cs' = r.cs
    /\ nums' = nums \o newnums
    /\ abits' = abits \o newbits
    /\ last' = [rec EXCEPT !.err = r.err, !.ns = CallNs, !.before = cs,
                           !.count = last.count + 1,
                           !.prev = [op |-> last.op, args |-> last.args,
                                     outbits |-> last.outbits]]
    /\ UNCHANGED <<char, scenario>>
    /\ UNCHANGED hashVars

CallRecord(op) == [NoCall EXCEPT !.op = op]

\* AllocatedNum::alloc(cs.namespace(|| "input i"), || Ok(v))
AllocInput(v) ==
    /\ scenario = "num" /\ last.count = 0 /\ abits = <<>>
    /\ Len(nums) < MaxNums
    /\ Len(cs.wnames) + 1 < MaxWires
    /\ LET r == AllocatedNumAlloc(cs, Namespace("", "input " \o ToString(Len(nums))), Ok(v))
       IN  /\ cs' = r.cs
           /\ nums' = Append(nums, r.num)
    /\ UNCHANGED <<char, scenario, abits, last>>
    /\ UNCHANGED hashVars

\* AllocatedBit::alloc(cs.namespace(|| "input bit i"), b): with a value, or
\* with none where the constraint system defines the shape only
AllocInputBit(b) ==
    /\ scenario = "num" /\ last.count = 0
    /\ IsSome(b) \/ ~cs.runs
    /\ Len(abits) < NUM_BITS
    /\ Len(cs.wnames) + 1 < MaxWires
    /\ LET r == AllocatedBitAlloc(cs, Namespace("", "input bit " \o ToString(Len(abits))),
                                  b)
       IN  /\ cs' = r.cs
           /\ abits' = Append(abits, r.bit)
    /\ UNCHANGED <<char, scenario, nums, last>>
    /\ UNCHANGED hashVars

CallMul(i, j) ==
    /\ CanCall(1) /\ Chained({i, j})
    /\ LET r == Mul(cs, CallNs, nums[i], nums[j])
       IN  Called(r, [CallRecord("mul") EXCEPT !.args = <<nums[i], nums[j]>>,
                                               !.outs = <<r.num>>],
                  IF r.err = "Ok" THEN <<r.num>> ELSE <<>>, <<>>)

CallSquare(i) ==
    /\ CanCall(1) /\ Chained({i})
    /\ LET r == Square(cs, CallNs, nums[i])
       IN  Called(r, [CallRecord("square") EXCEPT !.args = <<nums[i]>>,
                                                  !.outs = <<r.num>>],
                  IF r.err = "Ok" THEN <<r.num>> ELSE <<>>, <<>>)

CallAssertNonzero(i) ==
    /\ CanCall(1) /\ Chained({i})
    /\ LET r == AssertNonzero(cs, CallNs, nums[i])
       IN  Called(r, [CallRecord("assert_nonzero") EXCEPT !.args = <<nums[i]>>,
                                                          !.inv = r.inv],
                  <<>>, <<>>)

CallConditionallyReverse(i, j, condition) ==
    /\ CanCall(2) /\ Chained({i, j})
    /\ LET r == ConditionallyReverse(cs, CallNs, nums[i], nums[j], condition)
       IN  Called(r, [CallRecord("conditionally_reverse")
                         EXCEPT !.args = <<nums[i], nums[j]>>, !.cond = condition,
                                !.outs = <<r.r, r.s>>],
                  IF r.err = "Ok" THEN <<r.r, r.s>> ELSE <<>>, <<>>)

CallConditionallyNegate(i, condition) ==
    /\ CanCall(1) /\ Chained({i})
    /\ LET r == ConditionallyNegate(cs, CallNs, nums[i], condition)
       IN  Called(r, [CallRecord("conditionally_negate")
                         EXCEPT !.args = <<nums[i]>>, !.cond = condition,
                                !.outs = <<r.num>>],
                  IF r.err = "Ok" THEN <<r.num>> ELSE <<>>, <<>>)

CallIntoBits(i) ==
    /\ CanCall(NUM_BITS) /\ Chained({i})
    /\ LET r == IntoBits(cs, CallNs, nums[i])
       IN  Called(r, [CallRecord("into_bits") EXCEPT !.args = <<nums[i]>>,
                                                     !.outbits = r.bits],
                  <<>>, [k \in 1..Len(r.bits) |-> r.bits[k].bit])

CallIntoBitsStrict(i) ==
    /\ CanCall(NUM_BITS) /\ Chained({i})
    /\ LET r == IntoBitsStrict(cs, CallNs, nums[i])
       IN  Called(r, [CallRecord("into_bits_strict") EXCEPT !.args = <<nums[i]>>,
                                                            !.outbits = r.bits],
                  <<>>, [k \in 1..Len(r.bits) |-> r.bits[k].bit])

CallFromBitsStrict(bits) ==
    /\ CanCall(1)
    /\ last.count = 0 \/ last.outbits # <<>>
    /\ LET r == FromBitsStrict(cs, CallNs, bits)
       IN  Called(r, [CallRecord("from_bits_strict") EXCEPT !.inbits = bits,
                                                            !.outs = <<r.num>>],
                  IF r.err = "Ok" THEN <<r.num>> ELSE <<>>, <<>>)

NumInit ==
    /\ scenario = "num"
    /\ char \in Moduli
    /\ cs \in {EmptyCs, ShapeCs}
    /\ nums = <<>>
    /\ abits = <<>>
    /\ last = NoCall
    /\ input = <<>> /\ pc = "idle" /\ bits_iter = <<>>
    /\ segment_generators = <<>> /\ segment_windows = <<>>
    /\ segment_i = 0 /\ window_i = 0
    /\ segment_result = None /\ edwards_result = None
    /\ trace = <<>> /\ result = None

NumNext ==
    \/ \E v \in Fr : AllocInput(v)
    \/ \E b \in {None, Some(TRUE), Some(FALSE)} : AllocInputBit(b)
    \/ \E i, j \in 1..Len(nums) : CallMul(i, j)
    \/ \E i \in 1..Len(nums) : CallSquare(i)
    \/ \E i \in 1..Len(nums) : CallAssertNonzero(i)
    \/ \E i, j \in 1..Len(nums) : \E condition \in Booleans :
            CallConditionallyReverse(i, j, condition)
    \/ \E i \in 1..Len(nums) : \E condition \in Booleans :
            CallConditionallyNegate(i, condition)
    \/ \E i \in 1..Len(nums) : CallIntoBits(i)
    \/ \E i \in 1..Len(nums) : CallIntoBitsStrict(i)
    \/ \E bits \in BitSequences(NUM_BITS) : CallFromBitsStrict(bits)

\* the gadget a call record names, on the constraint system c
Gadget(op, c, ns, args, cond, inbits) ==
    CASE op = "mul" -> Mul(c, ns, args[1], args[2])
      [] op = "square" -> Square(c, ns, args[1])
      [] op = "assert_nonzero" -> AssertNonzero(c, ns, args[1])
      [] op = "conditionally_reverse" -> ConditionallyReverse(c, ns, args[1], args[2], cond)
      [] op = "conditionally_negate" -> ConditionallyNegate(c, ns, args[1], cond)
      [] op = "into_bits" -> IntoBits(c, ns, args[1])
      [] op = "into_bits_strict" -> IntoBitsStrict(c, ns, args[1])
      [] OTHER -> FromBitsStrict(c, ns, inbits)

(***************************************************************************)
(* The curve, the generator table and the collaborators of pedersen_hash   *)
(* (jubjub, circuit/mont.rs, circuit/lookup.rs).  A point is an element    *)
(* of the group Z_GroupOrder with the form it is held in; a point of the   *)
(* circuit holds it as an Option, None where its coordinates have no value.*)
(***************************************************************************)
PointAdd(p, q) == (p + q) % GroupOrder
PointNegate(p) == (GroupOrder - p) % GroupOrder
PointMul(k, p) == (k * p) % GroupOrder

\* the generator of segment s
SegmentGenerator(s) == (7 ^ s) % GroupOrder

\* params.pedersen_circuit_generators(): for each segment, for each window w,
\* the table of the multiples 1..4 of 16^w times the segment's generator
PedersenCircuitGenerators ==
    [s \in 1..NumSegments |->
        [w \in 1..WindowsPerSegment |->
            [k \in 1..4 |-> PointMul(k * (16 ^ (w - 1)), SegmentGenerator(s))]]]

\* lookup3_xy_with_conditional_negation: the first two bits select the entry,
\* the third negates it.  The coordinates are allocated wires: they have a
\* value where the constraint system c runs the value closures, and the
\* driver hands a system that runs them no bit without a value.
Lookup3(c, abc, window) ==
    IF ~c.runs \/ \E k \in 1..3 : BooleanValue(abc[k]) = None
    THEN None
    ELSE LET a == Unwrap(BooleanValue(abc[1]))
             b == Unwrap(BooleanValue(abc[2]))
             neg == Unwrap(BooleanValue(abc[3]))
             i == (IF a THEN 1 ELSE 0) + (IF b THEN 2 ELSE 0)
         IN  Some(IF neg THEN PointNegate(window[i + 1]) ELSE window[i + 1])

\* the sum of two points of the circuit
OptionAdd(p, q) == IF IsSome(p) /\ IsSome(q) THEN Some(PointAdd(Unwrap(p), Unwrap(q))) ELSE None

\* MontgomeryPoint::interpret_unchecked
InterpretUnchecked(p) == [form |-> "Montgomery", p |-> p]
\* MontgomeryPoint::add
MontgomeryAdd(self, other) == [form |-> "Montgomery", p |-> OptionAdd(self.p, other.p)]
\* MontgomeryPoint::into_edwards
IntoEdwards(self) == [form |-> "Edwards", p |-> self.p]
\* EdwardsPoint::add
EdwardsAdd(self, other) == [form |-> "Edwards", p |-> OptionAdd(self.p, other.p)]

Traced(op, ns) == Append(trace, [op |-> op, ns |-> ns])

(***************************************************************************)
(* pedersen_hash (circuit/pedersen_hash.rs), one action per step.          *)
(***************************************************************************)
\* a slip: the last group is padded with true
NextOrTrue(it) == IF it = <<>> THEN Constant(TRUE) ELSE Head(it)

\* bits.next().unwrap_or(&boolean_false)
NextOrFalse(it) == IF it = <<>> THEN Constant(FALSE) ELSE Head(it)

\* an iterator after next()
Advance(it) == IF it = <<>> THEN it ELSE Tail(it)

\* a slip: the window is not left behind
RestOfWindowsKept(windows) == windows

\* segment_windows = &segment_windows[1..]
RestOfWindows(windows) == Tail(windows)

\* assert!(bits.len() > 0) and the locals' initial values
PhEnter ==
    /\ scenario = "hash" /\ pc = "call"
    /\ IF Len(input) > 0
       THEN /\ pc' = "segment"
            /\ bits_iter' = input
            /\ segment_generators' = PedersenCircuitGenerators
            /\ edwards_result' = None
            /\ segment_i' = 0
       ELSE /\ pc' = "panic"
            /\ UNCHANGED <<bits_iter, segment_generators, edwards_result, segment_i>>
    /\ UNCHANGED <<input, segment_windows, window_i, segment_result, trace, result>>
    /\ UNCHANGED numVars

\* the head of the outer loop: segment_generators.next().expect("enough segments")
PhNextSegment ==
    /\ scenario = "hash" /\ pc = "segment"
    /\ IF segment_generators = <<>>
       THEN /\ pc' = "panic"
            /\ UNCHANGED <<segment_generators, segment_windows, segment_result, window_i>>
       ELSE /\ pc' = "window"
            /\ segment_result' = None
            /\ segment_windows' = Head(segment_generators)
            /\ segment_generators' = Tail(segment_generators)
            /\ window_i' = 0
    /\ UNCHANGED <<input, bits_iter, segment_i, edwards_result, trace, result>>
    /\ UNCHANGED numVars

\* one turn of `while let Some(a) = bits.next()`: a lookup, added to the
\* segment's sum, and the next window
PhWindow ==
    /\ scenario = "hash" /\ pc = "window" /\ bits_iter # <<>>
    /\ LET a == Head(bits_iter)
           b == NextOrFalse(Tail(bits_iter))
           c == NextOrFalse(Advance(Tail(bits_iter)))
           where == "segment " \o ToString(segment_i) \o ", window " \o ToString(window_i)
           tmp == InterpretUnchecked(Lookup3(cs, <<a, b, c>>, segment_windows[1]))
       IN  /\ bits_iter' = Advance(Advance(Tail(bits_iter)))
           /\ IF segment_result = None
              THEN /\ segment_result' = Some(tmp)
                   /\ trace' = Traced("lookup", where)
              ELSE /\ segment_result' = Some(MontgomeryAdd(tmp, Unwrap(segment_result)))
                   /\ trace' = Append(Traced("lookup", where),
                                      [op |-> "montgomery add", ns |-> "addition of " \o where])
    /\ segment_windows' = RestOfWindows(segment_windows)
    /\ IF Len(segment_windows') = 0
       THEN pc' = "fold" /\ UNCHANGED window_i
       ELSE pc' = "window" /\ window_i' = window_i + 1
    /\ UNCHANGED <<input, segment_generators, segment_i, edwards_result, result>>
    /\ UNCHANGED numVars

\* bits.next() is None: the inner loop ends
PhBitsExhausted ==
    /\ scenario = "hash" /\ pc = "window" /\ bits_iter = <<>>
    /\ pc' = "fold"
    /\ UNCHANGED <<input, bits_iter, segment_generators, segment_windows, segment_i, window_i,
                   segment_result, edwards_result, trace, result>>
    /\ UNCHANGED numVars

\* match segment_result: the segment's sum is converted and added to the
\* accumulator, or no bit was processed and the outer loop ends
PhFold ==
    /\ scenario = "hash" /\ pc = "fold"
    /\ IF IsSome(segment_result)
       THEN LET seg == "segment " \o ToString(segment_i)
                converted == IntoEdwards(Unwrap(segment_result))
            IN  /\ IF IsSome(edwards_result)
                   THEN /\ edwards_result' = Some(EdwardsAdd(converted, Unwrap(edwards_result)))
                        /\ trace' = Append(Traced("into edwards",
                                                  "conversion of " \o seg \o " into edwards"),
                                           [op |-> "edwards add",
                                            ns |-> "addition of " \o seg \o " to accumulator"])
                   ELSE /\ edwards_result' = Some(converted)
                        /\ trace' = Traced("into edwards",
                                           "conversion of " \o seg \o " into edwards")
                /\ segment_i' = segment_i + 1
                /\ pc' = "segment"
       ELSE /\ pc' = "return"
            /\ UNCHANGED <<edwards_result, trace, segment_i>>
    /\ UNCHANGED <<input, bits_iter, segment_generators, segment_windows, window_i,
                   segment_result, result>>
    /\ UNCHANGED numVars

\* Ok(edwards_result.unwrap())
PhReturn ==
    /\ scenario = "hash" /\ pc = "return"
    /\ IF IsSome(edwards_result)
       THEN pc' = "done" /\ result' = edwards_result
       ELSE pc' = "panic" /\ UNCHANGED result
    /\ UNCHANGED <<input, bits_iter, segment_generators, segment_windows, segment_i, window_i,
                   segment_result, edwards_result, trace>>
    /\ UNCHANGED numVars

\* the input bits, as the tests allocate them: "input i", with a value; the
\* inputs of n bits are those with at most MaxOnes true bits
InputBits(n) ==
    {[i \in 1..n |-> Is([value |-> Some(i \in ones), variable |-> i])] :
        ones \in {o \in SUBSET (1..n) : Cardinality(o) <= MaxOnes}}

\* the input of n bits without values, as a circuit's shape is defined
ShapeBits(n) == [i \in 1..n |-> Is([value |-> None, variable |-> i])]

\* pedersen_hash is called on bits with values in a constraint system that
\* runs the value closures, or on bits without values in one that does not
HashInit ==
    /\ scenario = "hash"
    /\ char = 3 /\ nums = <<>> /\ abits = <<>> /\ last = NoCall
    /\ \/ cs = EmptyCs /\ input \in UNION {InputBits(n) : n \in 0..MaxHashBits}
       \/ cs = ShapeCs /\ input \in {ShapeBits(n) : n \in 0..MaxHashBits}
    /\ pc = "call" /\ bits_iter = <<>>
    /\ segment_generators = <<>> /\ segment_windows = <<>>
    /\ segment_i = 0 /\ window_i = 0
    /\ segment_result = None /\ edwards_result = None
    /\ trace = <<>> /\ result = None

HashNext ==
    \/ PhEnter
    \/ PhNextSegment
    \/ PhWindow
    \/ PhBitsExhausted
    \/ PhFold
    \/ PhReturn

(***************************************************************************)
(* The reference hash (pedersen_hash.rs outside the circuit): per segment, *)
(* the scalar sum of enc(group) * 16^j over its groups j, times the        *)
(* segment's generator; the segments' points are added.                    *)
(***************************************************************************)
\* groups of 3 bits in n bits
Groups(n) == (n + 2) \div 3

BitAt(bs, i) == IF i <= Len(bs) THEN Unwrap(BooleanValue(bs[i])) ELSE FALSE

\* the scalar of group k: 1 + a + 2b, negated when c
Encode(bs, k) ==
    LET m == 1 + (IF BitAt(bs, 3 * k + 1) THEN 1 ELSE 0)
               + (IF BitAt(bs, 3 * k + 2) THEN 2 ELSE 0)
    IN  IF BitAt(bs, 3 * k + 3) THEN GroupOrder - m ELSE m

RECURSIVE ReferenceSum(_, _)
ReferenceSum(bs, k) ==
    IF k >= Groups(Len(bs)) THEN 0
    ELSE PointAdd(PointMul(Encode(bs, k) * (16 ^ (k % WindowsPerSegment)),
                           SegmentGenerator((k \div WindowsPerSegment) + 1)),
                  ReferenceSum(bs, k + 1))

ReferenceHash(bs) == ReferenceSum(bs, 0)

\* the input fits in the generator table
Fits(bs) == Len(bs) > 0 /\ Groups(Len(bs)) <= NumSegments * WindowsPerSegment

\* the field-element gadget alone, pedersen_hash alone, and both
SpecNum == NumInit /\ [][NumNext]_vars
SpecHash == HashInit /\ [][HashNext]_vars

Init == NumInit \/ HashInit
Next == NumNext \/ HashNext
Spec == Init /\ [][Next]_vars

(***************************************************************************)
(* C1: for every non-empty bit sequence that fits in the generator table,  *)
(* the point pedersen_hash returns is, in Edwards form, the reference      *)
(* windowed hash of the same bits: group k, the last one padded with       *)
(* false, selects an entry of window k mod W of segment k div W, and all   *)
(* the selected entries are summed.                                        *)
(***************************************************************************)
C1_HashAgreesWithReference ==
    (pc = "done" /\ cs.runs /\ Fits(input)) =>
        /\ IsSome(result)
        /\ Unwrap(result).form = "Edwards"
        /\ Unwrap(result).p = Some(ReferenceHash(input))

\* a returned hash of an input that spans two segments, whose last group is
\* padded and holds a true bit
C1_Witness ==
    /\ pc = "done" /\ cs.runs
    /\ Groups(Len(input)) > WindowsPerSegment
    /\ Len(input) % 3 # 0
    /\ BitAt(input, Len(input))
    /\ Unwrap(result).p = Some(ReferenceHash(input))

(***************************************************************************)
(* What the claims on the field-element gadget speak of.                   *)
(***************************************************************************)
\* the last call was op and returned Ok, in a constraint system that runs the
\* value closures
Returned(op) == scenario = "num" /\ cs.runs /\ last.op = op /\ last.err = "Ok"

\* the constraints and the number of wires the last call added
Added == SubSeq(cs.cons, Len(last.before.cons) + 1, Len(cs.cons))
AddedWires == Len(cs.wit) - Len(last.before.wit)
AddedHold == \A i \in 1..Len(Added) : ConstraintHolds(Added[i], cs.wit)

\* the assignment with wire var set to x (cs.set)
With(var, x) == [cs.wit EXCEPT ![var] = x]

\* the wire of a number holds the number's value
Holds(num) == IsSome(num.value) /\ cs.wit[num.variable] = Unwrap(num.value)

BoolNum(b) == IF b THEN 1 ELSE 0

\* the integer that Booleans with present values write, most significant first
BooleansNumber(bs) ==
    BitsNumber([i \in 1..Len(bs) |-> BoolNum(Unwrap(BooleanValue(bs[i])))], 1, 0)

\* the digit of weight 2^(n-k) of v: digit k of n, most significant first
Digit(v, n, k) == (v \div Pow2(n - k)) % 2

\* the assignment with the wires of the Booleans bs set to the values q
RECURSIVE WithBits(_, _, _, _)
WithBits(wit, bs, q, i) ==
    IF i > Len(bs) THEN wit
    ELSE WithBits([wit EXCEPT ![bs[i].bit.variable] = q[i]], bs, q, i + 1)

(***************************************************************************)
(* C2: for every field element v, into_bits on an AllocatedNum holding v   *)
(* returns exactly NUM_BITS Boolean::Is bits, most significant first,      *)
(* whose values are the binary digits of the integer v below the modulus,  *)
(* and the witness it produced satisfies the constraints.                  *)
(***************************************************************************)
C2_IntoBitsCanonicalDigits ==
    (scenario = "num" /\ cs.runs /\ last.op = "into_bits") =>
        LET v == Unwrap(last.args[1].value)
        IN  /\ last.err = "Ok"
            /\ Len(last.outbits) = NUM_BITS
            /\ \A k \in 1..NUM_BITS :
                  /\ last.outbits[k].kind = "Is"
                  /\ last.outbits[k].bit.value = Some(Digit(v, NUM_BITS, k) = 1)
                  /\ cs.wit[last.outbits[k].bit.variable] = Digit(v, NUM_BITS, k)
            /\ BooleansNumber(last.outbits) = v
            /\ v < char
            /\ AddedWires = NUM_BITS
            /\ Len(Added) = NUM_BITS + 1
            /\ AddedHold
            /\ IsSatisfied(last.before) => IsSatisfied(cs)

\* into_bits has decomposed char - 1, whose digits are not all zero, in the
\* field of 5 elements, where the representation is wider than NUM_BITS
C2_Witness ==
    /\ Returned("into_bits")
    /\ char = 5
    /\ last.args[1].value = Some(char - 1)
    /\ BooleansNumber(last.outbits) = char - 1
    /\ IsSatisfied(cs)

(***************************************************************************)
(* C3: after into_bits on an element holding v, flipping the witness of    *)
(* any single bit wire (to 1 minus its value), or setting the element's    *)
(* wire to any value other than v, leaves the constraint system            *)
(* unsatisfied, and setting the value back leaves it satisfied again.      *)
(***************************************************************************)
C3_IntoBitsTamperDetected ==
    (Returned("into_bits") /\ IsSatisfied(last.before)) =>
        LET self == last.args[1]
            v == Unwrap(self.value)
        IN  /\ IsSatisfied(cs)
            /\ \A k \in 1..Len(last.outbits) :
                  LET w == last.outbits[k].bit.variable
                      cur == cs.wit[w]
                      flipped == CsSet(cs, w, FrSub(FrOne, cur))
                  IN  /\ ~IsSatisfied(flipped)
                      /\ IsSatisfied(CsSet(flipped, w, cur))
            /\ \A x \in Fr \ {v} :
                  LET tampered == CsSet(cs, self.variable, x)
                  IN  /\ ~IsSatisfied(tampered)
                      /\ IsSatisfied(CsSet(tampered, self.variable, v))

\* into_bits has decomposed a nonzero element: there are bit wires of both
\* values to flip
C3_Witness ==
    /\ Returned("into_bits")
    /\ IsSatisfied(cs)
    /\ \E j, k \in 1..Len(last.outbits) :
          /\ cs.wit[last.outbits[j].bit.variable] = 1
          /\ cs.wit[last.outbits[k].bit.variable] = 0
          /\ ~IsSatisfied(CsSet(cs, last.outbits[j].bit.variable, 0))
          /\ ~IsSatisfied(CsSet(cs, last.outbits[k].bit.variable, 1))

(***************************************************************************)
(* C4, as claimed: after the non-strict into_bits, with the element's wire *)
(* holding v, the constraints are satisfied if and only if the bit wires   *)
(* hold exactly the assignment into_bits produced: every other assignment  *)
(* of boolean values to the NUM_BITS bit wires leaves them unsatisfied.    *)
(***************************************************************************)
C4_Claimed_OnlyProducedBitsSatisfy ==
    (Returned("into_bits") /\ IsSatisfied(last.before)) =>
        \A q \in [1..NUM_BITS -> {0, 1}] :
            IsSatisfied([cs EXCEPT !.wit = WithBits(cs.wit, last.outbits, q, 1)])
                <=> \A k \in 1..NUM_BITS : q[k] = cs.wit[last.outbits[k].bit.variable]

(***************************************************************************)
(* C4, amended: after the non-strict into_bits, with the element's wire    *)
(* holding v, an assignment of boolean values to the NUM_BITS bit wires    *)
(* satisfies the constraints if and only if the number it writes is        *)
(* congruent to v modulo the modulus; the assignment into_bits produced is *)
(* the only one exactly when v + modulus >= 2^NUM_BITS, and otherwise the  *)
(* digits of v + modulus satisfy them too.                                 *)
(***************************************************************************)
C4_CongruentBitsSatisfy ==
    (Returned("into_bits") /\ IsSatisfied(last.before)) =>
        LET v == Unwrap(last.args[1].value)
            sat(q) == IsSatisfied([cs EXCEPT !.wit = WithBits(cs.wit, last.outbits, q, 1)])
            satisfying == {q \in [1..NUM_BITS -> {0, 1}] : sat(q)}
        IN  /\ Holds(last.args[1])
            /\ \A q \in [1..NUM_BITS -> {0, 1}] :
                  sat(q) <=> BitsNumber(q, 1, 0) % char = v
            /\ (Cardinality(satisfying) = 1) <=> (v + char >= Pow2(NUM_BITS))
            /\ v + char < Pow2(NUM_BITS) =>
                  sat([k \in 1..NUM_BITS |-> Digit(v + char, NUM_BITS, k)])

\* into_bits has decomposed 0 in the field of 5 elements: the digits 101 of
\* the modulus satisfy the constraints as the produced digits 000 do
C4_Witness ==
    /\ Returned("into_bits")
    /\ char = 5
    /\ last.args[1].value = Some(0)
    /\ IsSatisfied(cs)
    /\ IsSatisfied([cs EXCEPT !.wit = WithBits(cs.wit, last.outbits, <<1, 0, 1>>, 1)])

\* the constraint of this name among those the last call added
AddedNamed(name) == CHOOSE con \in {Added[i] : i \in 1..Len(Added)} :
                        con.name = last.ns \o name

\* every wire-backed Boolean's wire holds the Boolean's bit
BitsHeld(bs) ==
    \A i \in 1..Len(bs) :
        bs[i].kind # "Constant" =>
            /\ IsSome(bs[i].bit.value)
            /\ cs.wit[bs[i].bit.variable] = BoolNum(Unwrap(bs[i].bit.value))

(***************************************************************************)
(* C5: for every field element v and every sequence B of exactly NUM_BITS  *)
(* Booleans, most significant first, that writes the binary digits of v    *)
(* with any mix of Constant, Is and Not, from_bits_strict(B) returns an    *)
(* AllocatedNum whose value and wire both hold v, the constraints it adds  *)
(* hold, and any other value on that wire violates the packing constraint; *)
(* in particular from_bits_strict on the output of into_bits_strict on v   *)
(* yields v.                                                               *)
(***************************************************************************)
C5_FromBitsStrictInvertsDigits ==
    (scenario = "num" /\ cs.runs /\ last.op = "from_bits_strict"
        /\ BooleansNumber(last.inbits) < char) =>
        LET v == BooleansNumber(last.inbits)
            num == last.outs[1]
            packing == AddedNamed("packing constraint")
        IN  /\ last.err = "Ok"
            /\ Len(last.inbits) = NUM_BITS
            /\ BitsHeld(last.inbits)
            /\ num.value = Some(v)
            /\ cs.wit[num.variable] = v
            /\ AddedWires = 1
            /\ AddedHold
            /\ IsSatisfied(last.before) => IsSatisfied(cs)
            /\ \A x \in Fr \ {v} :
                  /\ ~ConstraintHolds(packing, With(num.variable, x))
                  /\ IsSatisfied(last.before) =>
                        WhichIsUnsatisfied(CsSet(cs, num.variable, x))
                            = last.ns \o "packing constraint"
            /\ (last.prev.op = "into_bits_strict" /\ last.inbits = last.prev.outbits) =>
                  num.value = last.prev.args[1].value

\* from_bits_strict has packed digits of a nonzero v given by a constant, a
\* direct and a negated bit
C5_Witness ==
    /\ Returned("from_bits_strict")
    /\ BooleansNumber(last.inbits) < char
    /\ last.outs[1].value = Some(BooleansNumber(last.inbits))
    /\ last.outs[1].value # Some(0)
    /\ \A kind \in {"Constant", "Is", "Not"} :
          \E i \in 1..Len(last.inbits) : last.inbits[i].kind = kind
    /\ IsSatisfied(cs)

(***************************************************************************)
(* C6: when the NUM_BITS input bits of from_bits_strict write exactly the  *)
(* modulus, the call still returns an AllocatedNum, whose value is 0, and  *)
(* the constraint system is not satisfied: the packing constraint holds    *)
(* and the value-below-modulus check on the bits is violated.              *)
(***************************************************************************)
C6_ModulusBitsPackToZero ==
    (scenario = "num" /\ cs.runs /\ last.op = "from_bits_strict"
        /\ BooleansNumber(last.inbits) = char) =>
        LET num == last.outs[1]
        IN  /\ last.err = "Ok"
            /\ num.value = Some(0)
            /\ cs.wit[num.variable] = 0
            /\ ConstraintHolds(AddedNamed("packing constraint"), cs.wit)
            /\ ~ConstraintHolds(AddedNamed("enforce in field"), cs.wit)
            /\ ~IsSatisfied(cs)
            /\ IsSatisfied(last.before) =>
                  WhichIsUnsatisfied(cs) = last.ns \o "enforce in field"

\* from_bits_strict has packed the digits 101 of the modulus 5, given by
\* direct bits as in the test
C6_Witness ==
    /\ Returned("from_bits_strict")
    /\ char = 5
    /\ BooleansNumber(last.inbits) = char
    /\ \A i \in 1..Len(last.inbits) : last.inbits[i].kind = "Is"
    /\ last.outs[1].value = Some(0)
    /\ ~IsSatisfied(cs)

\* from_bits_strict has been given the very bits into_bits_strict returned
RoundTripReached ==
    /\ Returned("from_bits_strict")
    /\ last.prev.op = "into_bits_strict" /\ last.inbits = last.prev.outbits
    /\ last.outs[1].value = last.prev.args[1].value
    /\ last.outs[1].value = Some(char - 1)

\* the r1cs constraint a * b = c of this name
R1cs(name, a, b, c) ==
    [name |-> name, kind |-> "r1cs", a |-> a, b |-> b, c |-> c, bits |-> <<>>]

Var(v) == <<<<FrOne, v>>>>

(***************************************************************************)
(* C7: for all present values a and b, mul returns an AllocatedNum whose   *)
(* value and wire hold a * b in the field, and square returns a * a; each  *)
(* call adds exactly one constraint (self * other = product, self * self = *)
(* square), which the produced witness satisfies, and any other value on   *)
(* the output wire, the inputs unchanged, leaves the system unsatisfied.   *)
(***************************************************************************)
C7_MulAndSquare ==
    (scenario = "num" /\ cs.runs /\ last.op \in {"mul", "square"}) =>
        LET self == last.args[1]
            other == IF last.op = "mul" THEN last.args[2] ELSE self
            a == Unwrap(self.value)
            b == Unwrap(other.value)
            out == last.outs[1]
        IN  /\ last.err = "Ok"
            /\ Holds(self) /\ Holds(other)
            /\ out.value = Some((a * b) % char)
            /\ cs.wit[out.variable] = (a * b) % char
            /\ AddedWires = 1
            /\ out.variable = Len(cs.wit)
            /\ Added = <<R1cs(last.ns \o (IF last.op = "mul"
                                          THEN "multiplication constraint"
                                          ELSE "squaring constraint"),
                              Var(self.variable), Var(other.variable), Var(out.variable))>>
            /\ AddedHold
            /\ IsSatisfied(last.before) => IsSatisfied(cs)
            /\ \A x \in Fr \ {(a * b) % char} :
                  /\ ~ConstraintHolds(Added[1], With(out.variable, x))
                  /\ ~IsSatisfied(CsSet(cs, out.variable, x))

\* mul has multiplied two different nonzero values whose product wraps
\* around the modulus
C7_Witness ==
    /\ Returned("mul")
    /\ char = 5
    /\ last.args[1].value = Some(3) /\ last.args[2].value = Some(4)
    /\ last.outs[1].value = Some(2)
    /\ IsSatisfied(cs)
    /\ ~IsSatisfied(CsSet(cs, last.outs[1].variable, 3))

(***************************************************************************)
(* C8: assert_nonzero on an element with present value v returns success   *)
(* with the constraint satisfied, the inverse wire holding the inverse of  *)
(* v, for every v # 0, and returns DivisionByZero, enforcing no            *)
(* constraint, when v = 0; with the element's wire holding 0 no value of   *)
(* the inverse wire satisfies self * inverse = 1, and with v # 0 any       *)
(* inverse-wire value other than the inverse of v violates it.             *)
(***************************************************************************)
C8_AssertNonzero ==
    (scenario = "num" /\ cs.runs /\ last.op = "assert_nonzero") =>
        LET self == last.args[1]
            v == Unwrap(self.value)
        IN  /\ v = 0 =>
                  /\ last.err = DivisionByZero
                  /\ cs = last.before
            /\ v # 0 =>
                  /\ last.err = "Ok"
                  /\ Holds(self)
                  /\ AddedWires = 1
                  /\ last.inv = Len(cs.wit)
                  /\ Added = <<R1cs(last.ns \o "nonzero assertion constraint",
                                    Var(self.variable), Var(last.inv), Var(One))>>
                  /\ (v * cs.wit[last.inv]) % char = 1
                  /\ AddedHold
                  /\ IsSatisfied(last.before) => IsSatisfied(cs)
                  /\ \A x \in Fr \ {cs.wit[last.inv]} :
                        ~ConstraintHolds(Added[1], With(last.inv, x))
                  /\ \A x \in Fr :
                        ~ConstraintHolds(Added[1],
                                         [With(last.inv, x) EXCEPT ![self.variable] = 0])

\* assert_nonzero has accepted an element that is not its own inverse
C8_Witness ==
    /\ Returned("assert_nonzero")
    /\ last.args[1].value = Some(2)
    /\ cs.wit[last.inv] = 3
    /\ IsSatisfied(cs)

(***************************************************************************)
(* C9: for all present values a and b and every condition with a present   *)
(* boolean value, conditionally_reverse(a, b, condition) returns (r, s)    *)
(* with values (b, a) when the condition is true and (a, b) when it is     *)
(* false, allocates exactly two new wires and one constraint, and the      *)
(* produced witness satisfies that constraint.                             *)
(***************************************************************************)
C9_ConditionallyReverse ==
    (scenario = "num" /\ cs.runs /\ last.op = "conditionally_reverse") =>
        LET a == last.args[1]
            b == last.args[2]
            c == Unwrap(BooleanValue(last.cond))
            r == last.outs[1]
            s == last.outs[2]
        IN  /\ last.err = "Ok"
            /\ IsSome(BooleanValue(last.cond))
            /\ r.value = (IF c THEN b.value ELSE a.value)
            /\ s.value = (IF c THEN a.value ELSE b.value)
            /\ Holds(r) /\ Holds(s)
            /\ AddedWires = 2
            /\ r.variable = Len(cs.wit) - 1 /\ s.variable = Len(cs.wit)
            /\ Len(Added) = 1
            /\ Added[1].name = last.ns \o "conditional reversal"
            /\ Added[1].kind = "r1cs"
            /\ Eval(Added[1].a, cs.wit)
                  = (2 * Unwrap(b.value) + 2 * (char - Unwrap(a.value))) % char
            /\ Eval(Added[1].b, cs.wit) = BoolNum(c)
            /\ Eval(Added[1].c, cs.wit)
                  = (Unwrap(r.value) + (char - Unwrap(s.value))
                       + Unwrap(b.value) + (char - Unwrap(a.value))) % char
            /\ AddedHold
            /\ IsSatisfied(last.before) => IsSatisfied(cs)

\* conditionally_reverse has exchanged two different values under a
\* negated wire that holds false
C9_Witness ==
    /\ Returned("conditionally_reverse")
    /\ last.cond.kind = "Not"
    /\ BooleanValue(last.cond) = Some(TRUE)
    /\ last.args[1].value = Some(1) /\ last.args[2].value = Some(2)
    /\ last.outs[1].value = Some(2) /\ last.outs[2].value = Some(1)
    /\ IsSatisfied(cs)

(***************************************************************************)
(* C10: for every present value x and every condition given as Constant,   *)
(* Is or Not, conditionally_negate returns an AllocatedNum whose value and *)
(* wire hold -x when the condition's logical value is true and x when it   *)
(* is false, the single constraint condition * (2 * self) = self - result  *)
(* is satisfied, and any other value on the result wire leaves the system  *)
(* unsatisfied.                                                            *)
(***************************************************************************)
C10_ConditionallyNegate ==
    (scenario = "num" /\ cs.runs /\ last.op = "conditionally_negate") =>
        LET self == last.args[1]
            x == Unwrap(self.value)
            c == Unwrap(BooleanValue(last.cond))
            expected == IF c THEN (char - x) % char ELSE x
            r == last.outs[1]
        IN  /\ last.err = "Ok"
            /\ Holds(self)
            /\ BitsHeld(<<last.cond>>)
            /\ r.value = Some(expected)
            /\ cs.wit[r.variable] = expected
            /\ AddedWires = 1
            /\ Len(Added) = 1
            /\ Added[1].name = last.ns \o "conditional negation"
            /\ Eval(Added[1].a, cs.wit) = (2 * x) % char
            /\ Eval(Added[1].b, cs.wit) = BoolNum(c)
            /\ Eval(Added[1].c, cs.wit) = (x + char - expected) % char
            /\ AddedHold
            /\ IsSatisfied(last.before) => IsSatisfied(cs)
            /\ \A y \in Fr \ {expected} :
                  /\ ~ConstraintHolds(Added[1], With(r.variable, y))
                  /\ ~IsSatisfied(CsSet(cs, r.variable, y))

\* conditionally_negate has negated a nonzero value under a negated wire
\* that holds false
C10_Witness ==
    /\ Returned("conditionally_negate")
    /\ char = 5
    /\ last.cond.kind = "Not"
    /\ last.cond.bit.value = Some(FALSE)
    /\ last.args[1].value = Some(1)
    /\ last.outs[1].value = Some(4)
    /\ IsSatisfied(cs)

(***************************************************************************)
(* What the claims on the circuit's shape speak of.                        *)
(***************************************************************************)
\* the shape of a constraint system: the names of its wires, in the order
\* they were allocated, and its constraints, in the order they were enforced
ShapeOf(c) == [wnames |-> c.wnames, cons |-> c.cons]

\* the values an operand may hold, or none
OptFr == {None} \cup {Some(v) : v \in Fr}
OptBool == {None, Some(TRUE), Some(FALSE)}

\* the same wire with another value
NumWith(num, v) == [num EXCEPT !.value = v]
BoolWith(b, v) == IF b.kind = "Constant" THEN b ELSE [b EXCEPT !.bit.value = v]

\* the last call made again on the same wires and the same variants, in a
\* constraint system of the same shape that runs the closures or not, the
\* operands holding the values vs, cv and bv
Again(runs, vs, cv, bv) ==
    Gadget(last.op, [last.before EXCEPT !.runs = runs], last.ns,
           [i \in 1..Len(last.args) |-> NumWith(last.args[i], vs[i])],
           BoolWith(last.cond, cv),
           [i \in 1..Len(last.inbits) |-> BoolWith(last.inbits[i], bv[i])])

\* the calls pedersen_hash makes for group k (from 0) of G groups: a lookup
\* in window k mod W of segment k div W, an addition to the segment's sum
\* but for the segment's first group and, after the segment's last group,
\* the conversion and, but for the first segment, the addition to the
\* accumulator
GroupCalls(k, G) ==
    LET seg == "segment " \o ToString(k \div WindowsPerSegment)
        where == seg \o ", window " \o ToString(k % WindowsPerSegment)
    IN  <<[op |-> "lookup", ns |-> where]>>
        \o (IF k % WindowsPerSegment = 0 THEN <<>>
            ELSE <<[op |-> "montgomery add", ns |-> "addition of " \o where]>>)
        \o (IF k % WindowsPerSegment = WindowsPerSegment - 1 \/ k = G - 1
            THEN <<[op |-> "into edwards", ns |-> "conversion of " \o seg \o " into edwards"]>>
            ELSE <<>>)
        \o (IF (k % WindowsPerSegment = WindowsPerSegment - 1 \/ k = G - 1)
                   /\ k >= WindowsPerSegment
            THEN <<[op |-> "edwards add", ns |-> "addition of " \o seg \o " to accumulator"]>>
            ELSE <<>>)

RECURSIVE CallsFrom(_, _)
CallsFrom(k, G) == IF k >= G THEN <<>> ELSE GroupCalls(k, G) \o CallsFrom(k + 1, G)

\* the calls of pedersen_hash on an input of n bits
CallsOf(n) == CallsFrom(0, Groups(n))

IsPrefix(p, q) == Len(p) <= Len(q) /\ SubSeq(q, 1, Len(p)) = p

(***************************************************************************)
(* C11: two successful calls of a gadget on the same wires, the same       *)
(* Boolean variants and the same input length allocate the same wires and  *)
(* enforce the same constraints, in the same order and under the same      *)
(* names, whether the operands' values are present or absent and whatever  *)
(* they are: a call of into_bits, from_bits_strict, mul, square,           *)
(* assert_nonzero, conditionally_reverse or conditionally_negate made      *)
(* again with any other values, in a constraint system that runs the value *)
(* closures or not, either fails or leaves the shape the call left, and    *)
(* the calls pedersen_hash makes, with their namespaces, are those its     *)
(* input's length fixes.                                                   *)
(***************************************************************************)
C11_ShapeIndependentOfValues ==
    /\ (scenario = "num" /\ last.count > 0 /\ last.err = "Ok") =>
          \A runs \in BOOLEAN : \A cv \in OptBool :
          \A vs \in [1..Len(last.args) -> OptFr] :
          \A bv \in [1..Len(last.inbits) -> OptBool] :
              LET r == Again(runs, vs, cv, bv)
              IN  r.err = "Ok" => ShapeOf(r.cs) = ShapeOf(cs)
    /\ scenario = "hash" =>
          /\ IsPrefix(trace, CallsOf(Len(input)))
          /\ pc = "done" => trace = CallsOf(Len(input))

\* from_bits_strict has returned on wires without values where the shape
\* only is defined, and succeeds again, with the same shape, on wires with
\* values where the closures are run
C11_Witness ==
    /\ scenario = "num" /\ ~cs.runs
    /\ last.op = "from_bits_strict" /\ last.err = "Ok"
    /\ \A i \in 1..Len(last.inbits) :
           last.inbits[i].kind # "Constant" /\ last.inbits[i].bit.value = None
    /\ \E bv \in [1..Len(last.inbits) -> {Some(TRUE), Some(FALSE)}] :
           LET r == Again(TRUE, <<>>, None, bv)
           IN  r.err = "Ok" /\ IsSome(r.num.value) /\ ShapeOf(r.cs) = ShapeOf(cs)

\* pedersen_hash has returned on an input without values that spans two
\* segments
ShapeHashReached ==
    /\ scenario = "hash" /\ ~cs.runs /\ pc = "done"
    /\ Groups(Len(input)) > WindowsPerSegment
    /\ IsSome(result) /\ Unwrap(result).p = None
    /\ trace = CallsOf(Len(input))

(***************************************************************************)
(* C12: on an input of n >= 1 bits that fits in a table of W windows per   *)
(* segment, pedersen_hash makes exactly G = ceil(n/3) lookups, G - S       *)
(* Montgomery additions, S conversions to Edwards form and S - 1 Edwards   *)
(* additions, where S = ceil(G/W), whatever the bits' values and whether   *)
(* they are present: the counts depend on n only, and their sum is         *)
(* 2G + S - 1.  (It has made them all when it returns, and when it stops   *)
(* at the head of the outer loop.)                                         *)
(***************************************************************************)
\* the calls of this kind made so far
Count(op) == Cardinality({i \in 1..Len(trace) : trace[i].op = op})

\* S = ceil(G/W) for n bits
SegmentsOf(n) == (Groups(n) + WindowsPerSegment - 1) \div WindowsPerSegment

C12_OperationCounts ==
    (scenario = "hash" /\ pc \in {"done", "panic"} /\ Fits(input)) =>
        LET G == Groups(Len(input))
            S == SegmentsOf(Len(input))
        IN  /\ Count("lookup") = G
            /\ Count("montgomery add") = G - S
            /\ Count("into edwards") = S
            /\ Count("edwards add") = S - 1
            /\ Len(trace) = 2 * G + S - 1

\* pedersen_hash has returned on an input with a true bit whose groups fill
\* one segment and a part of the next
C12_Witness ==
    /\ scenario = "hash" /\ pc = "done" /\ cs.runs
    /\ Groups(Len(input)) = WindowsPerSegment + 1
    /\ \E i \in 1..Len(input) : BitAt(input, i)
    /\ Count("lookup") = WindowsPerSegment + 1
    /\ Count("montgomery add") = WindowsPerSegment - 1
    /\ Count("into edwards") = 2
    /\ Count("edwards add") = 1

(***************************************************************************)
(* C13: pedersen_hash returns a result, without any failure, on every      *)
(* non-empty input whose number of 3-bit groups is at most the number of   *)
(* windows of the generator table, the inputs whose groups use the last    *)
(* window of the last segment included: it needs no segment beyond those   *)
(* whose windows its groups use.  Stated as: on an input that fits,        *)
(* pedersen_hash never panics.                                             *)
(***************************************************************************)
C13_Claimed_FittingInputNeverFails ==
    (scenario = "hash" /\ Fits(input)) => pc # "panic"

\* what the code does: after every segment that took bits the outer loop
\* takes the next segment before it looks for bits, so that pedersen_hash
\* returns exactly on the inputs that leave a whole segment unused
ReturnsWhenASegmentIsLeft ==
    /\ (scenario = "hash" /\ pc = "done") =>
          /\ Len(input) > 0
          /\ Groups(Len(input)) <= (NumSegments - 1) * WindowsPerSegment
    /\ (scenario = "hash" /\ pc = "panic") =>
          \/ Len(input) = 0
          \/ Groups(Len(input)) > (NumSegments - 1) * WindowsPerSegment

\* pedersen_hash has panicked at expect("enough segments") on an input with
\* values that fits, after it has folded every group: the accumulator holds
\* the reference hash of the input
C13_Witness ==
    /\ scenario = "hash" /\ pc = "panic" /\ cs.runs
    /\ Fits(input)
    /\ bits_iter = <<>> /\ segment_generators = <<>>
    /\ IsSome(edwards_result)
    /\ Unwrap(edwards_result).p = Some(ReferenceHash(input))
    /\ trace = CallsOf(Len(input))

(***************************************************************************)
(* What the claims on the presence of values speak of.                     *)
(***************************************************************************)
\* the operations that return AllocatedNums computed from their operands
ValueGadgets == {"mul", "square", "conditionally_negate", "conditionally_reverse",
                 "from_bits_strict"}

\* every operand value, and the condition's and every bit's, is present
AllPresent(args, cond, inbits) ==
    /\ \A i \in 1..Len(args) : IsSome(args[i].value)
    /\ IsSome(BooleanValue(cond))
    /\ \A i \in 1..Len(inbits) : IsSome(BooleanValue(inbits[i]))

\* the values of the AllocatedNums a call returned
OutValues(op, r) ==
    IF op = "conditionally_reverse" THEN {r.r.value, r.s.value} ELSE {r.num.value}

(***************************************************************************)
(* C14, as claimed: for mul, square, conditionally_negate,                 *)
(* conditionally_reverse and from_bits_strict, whatever the constraint     *)
(* system does with the value closure, the call returns AllocatedNums,     *)
(* whose values are present when every operand value is present and        *)
(* absent when any is absent.                                              *)
(***************************************************************************)
C14_Claimed_PresencePropagates ==
    (scenario = "num" /\ last.count > 0 /\ last.op \in ValueGadgets) =>
        /\ last.err = "Ok"
        /\ \A i \in 1..Len(last.outs) :
              IsSome(last.outs[i].value) <=> AllPresent(last.args, last.cond, last.inbits)

(***************************************************************************)
(* C14, amended: the presence of the returned value follows what the       *)
(* constraint system does with the value closure.  Where it runs the       *)
(* closure, the call returns AllocatedNums with present values when every  *)
(* operand value is present and fails with AssignmentMissing when any is   *)
(* absent; where it does not, the call returns AllocatedNums whose values  *)
(* are absent, whatever the operands hold.  Checked on the call made and   *)
(* on the same call made again with every other choice of values.          *)
(***************************************************************************)
C14_PresenceFollowsTheClosure ==
    (scenario = "num" /\ last.count > 0 /\ last.op \in ValueGadgets) =>
        /\ last.err = "Ok"
        /\ \A i \in 1..Len(last.outs) : IsSome(last.outs[i].value) <=> cs.runs
        /\ cs.runs => AllPresent(last.args, last.cond, last.inbits)
        /\ \A runs \in BOOLEAN : \A cv \in OptBool :
           \A vs \in [1..Len(last.args) -> OptFr] :
           \A bv \in [1..Len(last.inbits) -> OptBool] :
               LET r == Again(runs, vs, cv, bv)
                   present ==
                       AllPresent([i \in 1..Len(last.args) |-> NumWith(last.args[i], vs[i])],
                                  BoolWith(last.cond, cv),
                                  [i \in 1..Len(last.inbits) |->
                                      BoolWith(last.inbits[i], bv[i])])
               IN  /\ (runs /\ present) =>
                         r.err = "Ok" /\ \A v \in OutValues(last.op, r) : IsSome(v)
                   /\ (runs /\ ~present) => r.err = AssignmentMissing
                   /\ ~runs => r.err = "Ok" /\ OutValues(last.op, r) = {None}

\* from_bits_strict has returned, where the shape only is defined, an
\* AllocatedNum without a value from bits that all have one
C14_Witness ==
    /\ scenario = "num" /\ ~cs.runs
    /\ last.op = "from_bits_strict" /\ last.err = "Ok"
    /\ AllPresent(last.args, last.cond, last.inbits)
    /\ \E i \in 1..Len(last.inbits) :
           last.inbits[i].kind = "Is" /\ BooleanValue(last.inbits[i]) = Some(TRUE)
    /\ last.outs[1].value = None

(***************************************************************************)
(* C15: in conditionally_reverse, the wires of a and b fixed and the       *)
(* condition holding the boolean value c, the "conditional reversal"       *)
(* constraint pins both outputs: the only values of the result wires       *)
(* (r, s) that satisfy it are (a, b) when c is false and (b, a) when c is  *)
(* true, and any other pair leaves the system unsatisfied.                 *)
(***************************************************************************)
\* the assignment with the two result wires of the last call set to x and y
WithResults(x, y) ==
    [cs.wit EXCEPT ![last.outs[1].variable] = x, ![last.outs[2].variable] = y]

C15_Claimed_ReversalPinsBothOutputs ==
    Returned("conditionally_reverse") =>
        LET c == Unwrap(BooleanValue(last.cond))
            a == Unwrap(last.args[1].value)
            b == Unwrap(last.args[2].value)
        IN  \A x, y \in Fr :
                ConstraintHolds(Added[1], WithResults(x, y))
                    <=> (<<x, y>> = IF c THEN <<b, a>> ELSE <<a, b>>)

\* what the code enforces: the one constraint
\* (2b - 2a) * c = (r - s) + (b - a) pins the difference of the results only
ReversalPinsTheDifference ==
    Returned("conditionally_reverse") =>
        LET r == Unwrap(last.outs[1].value)
            s == Unwrap(last.outs[2].value)
        IN  \A x, y \in Fr :
                /\ ConstraintHolds(Added[1], WithResults(x, y))
                       <=> FrSub(x, y) = FrSub(r, s)
                /\ FrSub(x, y) = FrSub(r, s) =>
                       (IsSatisfied(cs) => SatisfiedBy(cs, WithResults(x, y)))

\* conditionally_reverse has returned (1, 2) under a false condition, and
\* the system it left satisfied is satisfied as well with (2, 3) on the
\* result wires
C15_Witness ==
    /\ Returned("conditionally_reverse")
    /\ char = 5
    /\ BooleanValue(last.cond) = Some(FALSE)
    /\ last.args[1].value = Some(1) /\ last.args[2].value = Some(2)
    /\ last.outs[1].value = Some(1) /\ last.outs[2].value = Some(2)
    /\ IsSatisfied(cs)
    /\ SatisfiedBy(cs, WithResults(2, 3))
====
